---- MODULE Spec2Model ----
(***************************************************************************)
(* A model of vaemof/experiments.py: the MOF identity registry             *)
(* (get_mofdict), the dataset loader (get_generator_df), the validation    *)
(* and filter pipeline (get_prop_df), the batched inference loop           *)
(* (predict_properties) and the parallel scoring adapter (fast_scscore).   *)
(*                                                                         *)
(* A dataframe is a record [columns, rows]; rows is a sequence of records  *)
(* and every row carries its index label in the field "Index".  Frames     *)
(* handed to the functions carry the unique index labels that read_csv     *)
(* and the functions of this module produce.                               *)
(***************************************************************************)
EXTENDS Integers, Sequences, FiniteSets, TLC

VARIABLES fn, args, pc, df, locals, log, err, ret

vars == <<fn, args, pc, df, locals, log, err, ret>>

(***************************************************************************)
(* Bounds of the model.                                                    *)
(***************************************************************************)
MaxRefRows == 3
MaxId == 3

NoValue == [none |-> TRUE]
NoFrame == [columns |-> {}, rows |-> <<>>]

(***************************************************************************)
(* Generic helpers: dictionaries are functions, d[k] = v is Put.           *)
(***************************************************************************)
Put(d, k, v) == [x \in (DOMAIN d) \cup {k} |-> IF x = k THEN v ELSE d[x]]

EmptyDict == [x \in {} |-> NoValue]

SeqsUpTo(S, n) == UNION {[1..k -> S] : k \in 0..n}

RECURSIVE SelectIdx(_, _, _)
\* the subsequence of s at the positions i >= k for which Keep[i] holds
SelectIdx(s, Keep, k) ==
    IF k > Len(s) THEN <<>>
    ELSE IF Keep[k] THEN <<s[k]>> \o SelectIdx(s, Keep, k + 1)
         ELSE SelectIdx(s, Keep, k + 1)

(***************************************************************************)
(* pandas: Series.drop_duplicates() keeps the first row of every value;    *)
(* DataFrame.loc[index] selects the rows carrying those index labels.      *)
(***************************************************************************)
DropDuplicatesAll(rows, col) == [i \in DOMAIN rows |-> TRUE]

DropDuplicates(rows, col) ==
    [i \in DOMAIN rows |-> \A j \in DOMAIN rows : j < i => rows[j][col] # rows[i][col]]

RECURSIVE InsertSorted(_, _, _)
InsertSorted(sorted, r, col) ==
    IF sorted = <<>> THEN <<r>>
    ELSE IF r[col] < Head(sorted)[col] THEN <<r>> \o sorted
         ELSE <<Head(sorted)>> \o InsertSorted(Tail(sorted), r, col)

RECURSIVE SortValues(_, _)
\* DataFrame.sort_values(by=col), ascending
SortValues(rows, col) ==
    IF rows = <<>> THEN <<>>
    ELSE InsertSorted(SortValues(SubSeq(rows, 1, Len(rows) - 1), col), rows[Len(rows)], col)

(***************************************************************************)
(* get_mofdict                                                             *)
(***************************************************************************)
Metals == {"Zn", "Cu"}
Topologies == {"pcu", "tbo"}
Cores == {"bdc"}

MofTypes == {"id", "cats", "all", "smiles"}

Ids == 1..MaxId

RefRow == [id2mof : Ids, metal_node : Metals, organic_core : Cores, topology : Topologies]

WithIndex(rows) == [i \in DOMAIN rows |-> [Index |-> i - 1] @@ rows[i]]

RefTables == {WithIndex(t) : t \in SeqsUpTo(RefRow, MaxRefRows)}

MofColumns(mof_type) ==
    IF mof_type = "id" THEN <<"id2mof">>
    ELSE IF mof_type = "cats" THEN <<"metal_node", "organic_core", "topology">>
    ELSE <<"metal_node", "organic_core", "topology", "id2mof">>

Recognized(mof_type) == mof_type \in {"id", "cats", "all"}

MofOf(row) == <<row.metal_node, row.organic_core, row.topology>>

RECURSIVE IterRowsKeepFirst(_, _)
IterRowsKeepFirst(sub_df, maps) ==
    IF sub_df = <<>> THEN maps
    ELSE LET row == Head(sub_df)
             mof == MofOf(row)
         IN  IterRowsKeepFirst(Tail(sub_df),
                [ids2mof |-> Put(maps.ids2mof, row.id2mof, mof),
                 mof2ids |-> IF mof \in DOMAIN maps.mof2ids THEN maps.mof2ids
                             ELSE Put(maps.mof2ids, mof, row.id2mof)])

RECURSIVE IterRows(_, _)
\* the loop of get_mofdict over sub_df.iterrows()
IterRows(sub_df, maps) ==
    IF sub_df = <<>> THEN maps
    ELSE LET row == Head(sub_df)
             mof == MofOf(row)
         IN  IterRows(Tail(sub_df),
                [ids2mof |-> Put(maps.ids2mof, row.id2mof, mof),
                 mof2ids |-> Put(maps.mof2ids, mof, row.id2mof)])

SubDf(rows) == SortValues(SelectIdx(rows, DropDuplicates(rows, "id2mof"), 1), "id2mof")

MofDict(rows) == IterRows(SubDf(rows), [ids2mof |-> EmptyDict, mof2ids |-> EmptyDict])

InitMofdict ==
    /\ fn = "get_mofdict"
    /\ args \in [df : RefTables, mof_type : MofTypes]
    /\ pc = "call"
    /\ df = NoFrame
    /\ locals = NoValue
    /\ log = <<>>
    /\ err = "none"
    /\ ret = NoValue

GetMofdictRaise ==
    /\ fn = "get_mofdict" /\ pc = "call"
    /\ ~Recognized(args.mof_type)
    /\ pc' = "raised"
    /\ err' = "ValueError"
    /\ UNCHANGED <<fn, args, df, locals, log, ret>>

GetMofdictReturn ==
    /\ fn = "get_mofdict" /\ pc = "call"
    /\ Recognized(args.mof_type)
    /\ LET maps == MofDict(args.df)
       IN  /\ ret' = [ids2mof |-> maps.ids2mof, mof2ids |-> maps.mof2ids,
                      mof_columns |-> MofColumns(args.mof_type)]
           /\ log' = <<Cardinality(DOMAIN maps.mof2ids)>>
    /\ pc' = "done"
    /\ UNCHANGED <<fn, args, df, locals, err>>

NextMofdict == GetMofdictRaise \/ GetMofdictReturn

SpecMofdict == InitMofdict /\ [][NextMofdict]_vars

(***************************************************************************)
(* Properties of get_mofdict                                               *)
(***************************************************************************)
MofdictDone == fn = "get_mofdict" /\ pc = "done"

\* the ids of a table, and the first row (in table order) that carries an id
TableIds(rows) == {rows[k].id2mof : k \in DOMAIN rows}

FirstRowOf(rows, i) ==
    rows[CHOOSE k \in DOMAIN rows :
            /\ rows[k].id2mof = i
            /\ \A j \in DOMAIN rows : j < k => rows[j].id2mof # i]

\* two distinct ids whose first rows carry the same triple
SharedTriple(rows) ==
    \E i, j \in TableIds(rows) :
        i # j /\ MofOf(FirstRowOf(rows, i)) = MofOf(FirstRowOf(rows, j))

TripleRoundTrip == \A t \in DOMAIN ret.mof2ids : ret.ids2mof[ret.mof2ids[t]] = t

IdRoundTrip ==
    \A i \in DOMAIN ret.ids2mof :
        /\ ret.ids2mof[i] \in DOMAIN ret.mof2ids
        /\ ret.mof2ids[ret.ids2mof[i]] = i

\* C1 (as stated): for every reference table, also one where two distinct
\* id2mof values carry the same triple, the two mappings returned by
\* get_mofdict are mutual inverses in both directions.
C1_MutualInverses == MofdictDone => (TripleRoundTrip /\ IdRoundTrip)

\* C1 (amended): triple -> id -> triple round-trips for every key of mof2ids
\* on every table; id -> triple -> id round-trips for every key of ids2mof
\* exactly when no two distinct id2mof values carry the same triple.
C1_InverseUnlessShared ==
    MofdictDone =>
        /\ TripleRoundTrip
        /\ IdRoundTrip <=> ~SharedTriple(args.df)

C1_Witness ==
    /\ MofdictDone
    /\ SharedTriple(args.df)
    /\ Cardinality(DOMAIN ret.mof2ids) >= 2

\* C10: ids2mof has exactly one key per distinct id2mof value, mapped to the
\* triple of the first row carrying that id; mof2ids maps each triple to the
\* largest id whose first row carries it; mof2ids has at most as many keys as
\* ids2mof, with equality exactly when no two ids share a triple.
C10_RegistryContents ==
    MofdictDone =>
        LET rows == args.df
            firstMof(i) == MofOf(FirstRowOf(rows, i))
        IN  /\ DOMAIN ret.ids2mof = TableIds(rows)
            /\ \A i \in TableIds(rows) : ret.ids2mof[i] = firstMof(i)
            /\ DOMAIN ret.mof2ids = {firstMof(i) : i \in TableIds(rows)}
            /\ \A t \in DOMAIN ret.mof2ids :
                    /\ ret.mof2ids[t] \in TableIds(rows)
                    /\ firstMof(ret.mof2ids[t]) = t
                    /\ \A i \in TableIds(rows) : firstMof(i) = t => i <= ret.mof2ids[t]
            /\ Cardinality(DOMAIN ret.mof2ids) <= Cardinality(DOMAIN ret.ids2mof)
            /\ (Cardinality(DOMAIN ret.mof2ids) = Cardinality(DOMAIN ret.ids2mof))
                    <=> ~SharedTriple(rows)

\* a table whose rows are not in id order, with a repeated id whose later row
\* carries another triple, and two ids that share a triple
C10_Witness ==
    /\ MofdictDone
    /\ SharedTriple(args.df)
    /\ \E j, k \in DOMAIN args.df :
            j < k /\ args.df[j].id2mof = args.df[k].id2mof
                  /\ MofOf(args.df[j]) # MofOf(args.df[k])
    /\ \E j, k \in DOMAIN args.df : j < k /\ args.df[j].id2mof > args.df[k].id2mof

(***************************************************************************)
(* get_generator_df                                                        *)
(*                                                                         *)
(* The csv file holds the column id2mof and one column of SMILES strings,  *)
(* stored under the name the caller expects, under the name SMILES, or     *)
(* under another name.                                                     *)
(***************************************************************************)
MaxGenRows == 3

SmilesColumn == "smiles"
SmilesNames == {SmilesColumn, "SMILES", "canonical"}
SmilesValues == {"C", "CC"}

GenRow(name) == {("id2mof" :> i) @@ (name :> v) : i \in Ids, v \in SmilesValues}

\* pandas.read_csv: the columns of the file, a RangeIndex
GenFiles ==
    UNION {[columns : {{"id2mof", name}},
            rows : {WithIndex(t) : t \in SeqsUpTo(GenRow(name), MaxGenRows)}]
           : name \in SmilesNames}

RenameRow(row, old, new) ==
    [c \in ((DOMAIN row) \ {old}) \cup {new} |-> IF c = new THEN row[old] ELSE row[c]]

\* a plausible slip: the expected column is created whether or not the
\* alternate one exists
RenameOrCreate(frame, old, new) ==
    [columns |-> (frame.columns \ {old}) \cup {new},
     rows |-> [i \in DOMAIN frame.rows |->
                 IF old \in frame.columns THEN RenameRow(frame.rows[i], old, new)
                 ELSE frame.rows[i] @@ (new :> "")]]

\* DataFrame.rename(columns={old: new}): nothing happens when old is absent
Rename(frame, old, new) ==
    IF old \in frame.columns
    THEN [columns |-> (frame.columns \ {old}) \cup {new},
          rows |-> [i \in DOMAIN frame.rows |-> RenameRow(frame.rows[i], old, new)]]
    ELSE frame

\* DataFrame.reset_index(): a fresh RangeIndex; the old labels become the
\* column "index" unless drop=True
ResetIndex(frame, drop) ==
    [columns |-> IF drop THEN frame.columns ELSE frame.columns \cup {"index"},
     rows |-> [i \in DOMAIN frame.rows |->
                 [c \in (DOMAIN frame.rows[i]) \cup (IF drop THEN {} ELSE {"index"}) |->
                     IF c = "Index" THEN i - 1
                     ELSE IF c = "index" /\ ~drop THEN frame.rows[i]["Index"]
                     ELSE frame.rows[i][c]]]]

KeepLast(frame, col) ==
    [columns |-> frame.columns,
     rows |-> SelectIdx(frame.rows,
                 [i \in DOMAIN frame.rows |->
                     \A j \in DOMAIN frame.rows :
                         j > i => frame.rows[j][col] # frame.rows[i][col]], 1)]

\* df.drop_duplicates(subset=col), and df.loc[df[col].drop_duplicates().index]
\* on a frame with unique index labels
KeepFirst(frame, col) ==
    [columns |-> frame.columns,
     rows |-> SelectIdx(frame.rows, DropDuplicates(frame.rows, col), 1)]

GenRenamed(a) ==
    IF a.smiles_column \notin a.csv_file.columns
    THEN Rename(a.csv_file, "SMILES", a.smiles_column)
    ELSE a.csv_file

GenDeduped(a) ==
    IF ~a.use_duplicates THEN KeepFirst(GenRenamed(a), a.smiles_column) ELSE GenRenamed(a)

GenResult(a) ==
    IF a.testing THEN ResetIndex(KeepFirst(GenDeduped(a), "id2mof"), FALSE)
    ELSE GenDeduped(a)

InitGenerator ==
    /\ fn = "get_generator_df"
    /\ args \in [csv_file : GenFiles, smiles_column : {SmilesColumn},
                 use_duplicates : BOOLEAN, testing : BOOLEAN]
    /\ pc = "call"
    /\ df = NoFrame
    /\ locals = NoValue
    /\ log = <<>>
    /\ err = "none"
    /\ ret = NoValue

\* drop_duplicates(subset=smiles_column) on a frame without that column
GetGeneratorDfRaise ==
    /\ fn = "get_generator_df" /\ pc = "call"
    /\ ~args.use_duplicates
    /\ args.smiles_column \notin GenRenamed(args).columns
    /\ df' = GenRenamed(args)
    /\ pc' = "raised"
    /\ err' = "KeyError"
    /\ UNCHANGED <<fn, args, locals, log, ret>>

GetGeneratorDfReturn ==
    /\ fn = "get_generator_df" /\ pc = "call"
    /\ args.use_duplicates \/ args.smiles_column \in GenRenamed(args).columns
    /\ df' = GenResult(args)
    /\ ret' = GenResult(args)
    /\ log' = <<IF args.testing THEN "Testing" ELSE "Real run",
                <<Len(GenResult(args).rows), Cardinality(GenResult(args).columns)>>,
                GenResult(args).columns>>
    /\ pc' = "done"
    /\ UNCHANGED <<fn, args, locals, err>>

NextGenerator == GetGeneratorDfRaise \/ GetGeneratorDfReturn

SpecGenerator == InitGenerator /\ [][NextGenerator]_vars

(***************************************************************************)
(* Properties of get_generator_df                                          *)
(***************************************************************************)
GeneratorDone == fn = "get_generator_df" /\ pc = "done"

GeneratorEnded == fn = "get_generator_df" /\ pc # "call"

\* the name under which the file stores its SMILES strings
FileSmilesName == CHOOSE c \in args.csv_file.columns : c # "id2mof"

FileRows == args.csv_file.rows

\* position k of the file is the first row with its SMILES string
FirstOfSmiles(k) ==
    \A j \in DOMAIN FileRows :
        j < k => FileRows[j][FileSmilesName] # FileRows[k][FileSmilesName]

\* the positions of the file that take part in the selection by id
Eligible(k) == args.use_duplicates \/ FirstOfSmiles(k)

\* every returned row is a row of the file, named by its old index label,
\* and no two returned rows carry the same id
OneRowPerId(isCandidate(_)) ==
    /\ \A m, n \in DOMAIN ret.rows :
          ret.rows[m]["id2mof"] = ret.rows[n]["id2mof"] => m = n
    /\ \A m \in DOMAIN ret.rows :
          LET k == ret.rows[m]["index"] + 1
          IN  /\ k \in DOMAIN FileRows
              /\ isCandidate(k)
              /\ FileRows[k]["id2mof"] = ret.rows[m]["id2mof"]
              /\ \A j \in DOMAIN FileRows :
                    (j < k /\ isCandidate(j)) => FileRows[j]["id2mof"] # FileRows[k]["id2mof"]

EveryRow(k) == TRUE

OutputIds == {ret.rows[m]["id2mof"] : m \in DOMAIN ret.rows}

\* C5 (as stated): in test mode, for either value of use_duplicates, the
\* result has exactly one row per distinct id2mof value of the input (its
\* first occurrence) and the same set of distinct id2mof values as the input.
C5_OneRowPerInputId ==
    (GeneratorDone /\ args.testing) =>
        /\ OneRowPerId(EveryRow)
        /\ OutputIds = TableIds(FileRows)

\* C5 (amended): in test mode the result has exactly one row per distinct
\* id2mof value of the rows that remain after the optional SMILES
\* deduplication (the first remaining occurrence of the id).  With
\* duplicates retained the set of ids equals the input's; with duplicates
\* dropped it is the set of ids of the rows that are the first occurrence of
\* their SMILES string, a subset of the input's.
C5_OneRowPerRemainingId ==
    (GeneratorDone /\ args.testing) =>
        /\ OneRowPerId(Eligible)
        /\ OutputIds = {FileRows[k]["id2mof"] : k \in {j \in DOMAIN FileRows : Eligible(j)}}
        /\ OutputIds \subseteq TableIds(FileRows)
        /\ args.use_duplicates => OutputIds = TableIds(FileRows)

\* the SMILES deduplication removes the only row of an id
C5_Witness ==
    /\ GeneratorDone /\ args.testing /\ ~args.use_duplicates
    /\ OutputIds # TableIds(FileRows)
    /\ Len(ret.rows) >= 1

FileHasNoSmiles ==
    /\ args.smiles_column \notin args.csv_file.columns
    /\ "SMILES" \notin args.csv_file.columns

\* C7 (as stated): with neither the expected SMILES column nor the column
\* SMILES in the file, get_generator_df raises nothing for any value of the
\* two flags and returns a dataframe.
C7_NoFailureAtLoad ==
    (GeneratorEnded /\ FileHasNoSmiles) =>
        /\ pc = "done" /\ err = "none"
        /\ ret # NoValue

\* C7 (amended): with neither column in the file the rename changes nothing.
\* When duplicates are retained the function raises nothing and returns a
\* dataframe with the columns of the file, still without the expected column;
\* when duplicates are dropped, drop_duplicates raises KeyError inside
\* get_generator_df and nothing is returned.
C7_FailureOnlyWhenDeduplicating ==
    (GeneratorEnded /\ FileHasNoSmiles) =>
        /\ df.columns \ {"index"} = args.csv_file.columns
        /\ args.use_duplicates =>
              /\ pc = "done" /\ err = "none" /\ ret # NoValue
              /\ args.smiles_column \notin ret.columns
              /\ ~args.testing => ret = args.csv_file
        /\ ~args.use_duplicates =>
              /\ pc = "raised" /\ err = "KeyError" /\ ret = NoValue
              /\ df = args.csv_file

C7_Witness ==
    /\ GeneratorEnded /\ FileHasNoSmiles
    /\ ~args.use_duplicates /\ err = "KeyError"
    /\ Len(args.csv_file.rows) >= 2

(***************************************************************************)
(* get_prop_df                                                             *)
(*                                                                         *)
(* TestSampleSize stands for the n=1000 of df.sample in test mode, scaled  *)
(* to the size of the files of the model.  Selectivities are compared      *)
(* with SelectivityBound, the 200.0 of the source.                         *)
(***************************************************************************)
MaxPropRows == 2
TestSampleSize == 1
SelectivityBound == 200

PropMetals == {"Zn", "Cu"}

\* (co2n2_selectivity, co2ch4_selectivity): below, at and above the bound
SelectivityPairs == {<<199, 199>>, <<200, 199>>, <<199, 200>>, <<201, 199>>, <<199, 201>>}

PropColumns ==
    {"smiles", "mask", "metal_node", "organic_core", "topology",
     "co2n2_selectivity", "co2ch4_selectivity"}

PropRecord(m, metal, sel) ==
    [smiles |-> "C", mask |-> m, metal_node |-> metal, organic_core |-> "bdc",
     topology |-> "pcu", co2n2_selectivity |-> sel[1], co2ch4_selectivity |-> sel[2]]

\* the rows of the files: every metal and pair of selectivities under a true
\* mask, and two kinds of rows under a false mask
PropRow ==
    {PropRecord(TRUE, metal, sel) : metal \in PropMetals, sel \in SelectivityPairs}
    \cup {PropRecord(FALSE, "Zn", <<199, 199>>), PropRecord(FALSE, "Cu", <<201, 199>>)}

PropFiles ==
    [columns : {PropColumns},
     rows : {WithIndex(t) : t \in SeqsUpTo(PropRow, MaxPropRows)}]

\* the registries handed to get_prop_df
Registries ==
    {(<<"Zn", "bdc", "pcu">> :> 1),
     (<<"Zn", "bdc", "pcu">> :> 1) @@ (<<"Cu", "bdc", "pcu">> :> 2)}

\* heat_of_adsorption is in no file; scscore is attached by the scoring stage
TargetLists ==
    {<<"co2n2_selectivity", "co2ch4_selectivity">>,
     <<"co2n2_selectivity", "scscore">>,
     <<"co2n2_selectivity", "heat_of_adsorption">>}

\* scorer.get_score_from_smi(x)[1]: the score of a SMILES string
ScoreOf(smi) == IF smi = "C" THEN 1 ELSE 2

Injections(n, S) == {p \in [1..n -> S] : \A i, j \in 1..n : p[i] = p[j] => i = j}

\* df.sample(n=n): n distinct rows in any order; more than the frame holds
\* raises ValueError
Sample(frame, n) ==
    {[columns |-> frame.columns, rows |-> [i \in 1..n |-> frame.rows[p[i]]]]
     : p \in Injections(n, DOMAIN frame.rows)}

\* the frame after line 164-169
Loaded(a) ==
    IF a.testing
    THEN {ResetIndex(f, TRUE) : f \in Sample(a.csv_file, TestSampleSize)}
    ELSE {a.csv_file}

\* lines 171-174
Scored(a, frame) ==
    IF a.compute_scscore
    THEN [columns |-> frame.columns \cup {"scscore"},
          rows |-> [i \in DOMAIN frame.rows |->
                      frame.rows[i] @@ ("scscore" :> ScoreOf(frame.rows[i][a.smiles_column]))]]
    ELSE frame

AnyTargetInColumns(frame, targets) == \E i \in DOMAIN targets : targets[i] \in frame.columns

\* all([t in df.columns.tolist() for t in targets])
AllTargetsInColumns(frame, targets) == \A i \in DOMAIN targets : targets[i] \in frame.columns

\* df.query(col): the rows whose column col is true
Query(frame, col) ==
    [columns |-> frame.columns,
     rows |-> SelectIdx(frame.rows, [i \in DOMAIN frame.rows |-> frame.rows[i][col]], 1)]

MaskKept(frame) == Len(Query(frame, "mask").rows)

\* n_remove = len(df) - len(df.query('mask'))
MaskRemoved(frame) == Len(frame.rows) - Len(Query(frame, "mask").rows)

Masked(frame) == ResetIndex(Query(frame, "mask"), TRUE)

\* valid_mof over df[mof_cols]
ValidMofsList(frame, mof2ids) ==
    [i \in DOMAIN frame.rows |-> MofOf(frame.rows[i]) \in DOMAIN mof2ids]

CountTrue(flags) == Cardinality({i \in DOMAIN flags : flags[i]})

\* n_remove = len(df) - sum(valid_mofs_list)
MofRemoved(frame, mof2ids) == Len(frame.rows) - CountTrue(ValidMofsList(frame, mof2ids))

\* df[valid_mofs_list].reset_index(drop=True); an empty list selects no
\* column instead of no row
ValidMofs(frame, mof2ids) ==
    IF frame.rows = <<>> THEN [columns |-> {}, rows |-> <<>>]
    ELSE ResetIndex([columns |-> frame.columns,
                     rows |-> SelectIdx(frame.rows, ValidMofsList(frame, mof2ids), 1)], TRUE)

\* df['id2mof'] = df[mof_cols].apply(lambda x: mof2ids[tuple(x)], axis=1)
WithId2mof(frame, mof2ids) ==
    [columns |-> frame.columns \cup {"id2mof"},
     rows |-> [i \in DOMAIN frame.rows |->
                 ("id2mof" :> mof2ids[MofOf(frame.rows[i])]) @@ frame.rows[i]]]

AtMost(x, bound) == x <= bound

\* x < bound on floats
Below(x, bound) == x < bound

WhereBelow(frame, col) ==
    [columns |-> frame.columns,
     rows |-> SelectIdx(frame.rows,
                 [i \in DOMAIN frame.rows |-> Below(frame.rows[i][col], SelectivityBound)], 1)]

OutlierFilterFirstOnly(frame) == ResetIndex(WhereBelow(frame, "co2n2_selectivity"), TRUE)

\* lines 195-197
OutlierFilter(frame) ==
    ResetIndex(WhereBelow(WhereBelow(frame, "co2n2_selectivity"), "co2ch4_selectivity"), TRUE)

Header(a) == IF a.testing THEN "Testing" ELSE "Real run"

Removed(stage, n) == [stage |-> stage, removed |-> n]

InitProp ==
    /\ fn = "get_prop_df"
    /\ args \in [csv_file : PropFiles, targets : TargetLists, mof2ids : Registries,
                 testing : BOOLEAN, smiles_column : {"smiles"},
                 compute_scscore : BOOLEAN]
    /\ pc = "call"
    /\ df = NoFrame
    /\ locals = NoValue
    /\ log = <<>>
    /\ err = "none"
    /\ ret = NoValue

\* line 166: the file holds fewer rows than the sample asks for
GetPropDfSampleError ==
    /\ fn = "get_prop_df" /\ pc = "call"
    /\ args.testing
    /\ Len(args.csv_file.rows) < TestSampleSize
    /\ df' = args.csv_file
    /\ locals' = [line |-> 166]
    /\ pc' = "raised"
    /\ err' = "ValueError"
    /\ UNCHANGED <<fn, args, log, ret>>

\* line 176: a target is not a column of the scored frame
GetPropDfAssertionError ==
    /\ fn = "get_prop_df" /\ pc = "call"
    /\ \E loaded \in Loaded(args) :
          LET scored == Scored(args, loaded)
          IN  /\ ~AllTargetsInColumns(scored, args.targets)
              /\ df' = scored
              /\ locals' = [line |-> 176, loaded |-> loaded]
    /\ log' = <<Header(args)>>
    /\ pc' = "raised"
    /\ err' = "AssertionError"
    /\ UNCHANGED <<fn, args, ret>>

\* line 186: the mask left no row, the empty selection list of line 184
\* selected no column, and df[mof_cols] finds none of them
GetPropDfKeyError ==
    /\ fn = "get_prop_df" /\ pc = "call"
    /\ \E loaded \in Loaded(args) :
          LET scored == Scored(args, loaded)
              masked == Masked(scored)
          IN  /\ AllTargetsInColumns(scored, args.targets)
              /\ masked.rows = <<>>
              /\ df' = ValidMofs(masked, args.mof2ids)
              /\ locals' = [line |-> 186, loaded |-> loaded]
              /\ log' = <<Header(args), Removed("mask", MaskRemoved(scored))>>
    /\ pc' = "raised"
    /\ err' = "KeyError"
    /\ UNCHANGED <<fn, args, ret>>

\* line 186: no row has a known triple, apply returns an empty frame of
\* three columns and pandas refuses it as the value of one column
GetPropDfSetitemError ==
    /\ fn = "get_prop_df" /\ pc = "call"
    /\ \E loaded \in Loaded(args) :
          LET scored == Scored(args, loaded)
              masked == Masked(scored)
              valid == ValidMofs(masked, args.mof2ids)
          IN  /\ AllTargetsInColumns(scored, args.targets)
              /\ masked.rows # <<>>
              /\ valid.rows = <<>>
              /\ df' = valid
              /\ locals' = [line |-> 186, loaded |-> loaded]
              /\ log' = <<Header(args), Removed("mask", MaskRemoved(scored))>>
    /\ pc' = "raised"
    /\ err' = "ValueError"
    /\ UNCHANGED <<fn, args, ret>>

\* lines 164-201 without a failure.  With no valid row left the assignment
\* of line 186 either raises (GetPropDfSetitemError) or, on a pandas that
\* accepts the empty frame, adds an empty column: both are modelled.
GetPropDfReturn ==
    /\ fn = "get_prop_df" /\ pc = "call"
    /\ \E loaded \in Loaded(args) :
          LET scored == Scored(args, loaded)
              masked == Masked(scored)
              valid == ValidMofs(masked, args.mof2ids)
              identified == WithId2mof(valid, args.mof2ids)
              result == OutlierFilter(identified)
          IN  /\ AllTargetsInColumns(scored, args.targets)
              /\ masked.rows # <<>>
              /\ df' = result
              /\ ret' = result
              /\ locals' = [line |-> 201, loaded |-> loaded, identified |-> identified]
              /\ log' = <<Header(args),
                          Removed("mask", MaskRemoved(scored)),
                          Removed("mof2ids", MofRemoved(masked, args.mof2ids)),
                          Removed("selectivity", Len(identified.rows) - Len(result.rows))>>
    /\ pc' = "done"
    /\ UNCHANGED <<fn, args, err>>

NextProp ==
    \/ GetPropDfSampleError
    \/ GetPropDfAssertionError
    \/ GetPropDfKeyError
    \/ GetPropDfSetitemError
    \/ GetPropDfReturn

SpecProp == InitProp /\ [][NextProp]_vars

(***************************************************************************)
(* Properties of get_prop_df                                               *)
(***************************************************************************)
PropDone == fn = "get_prop_df" /\ pc = "done"

PropEnded == fn = "get_prop_df" /\ pc # "call"

\* C2: every row of the dataframe returned by get_prop_df has mask = true, a
\* triple that is a key of mof2ids, and both selectivities strictly below
\* 200.0.
C2_SurvivorsAreValid ==
    PropDone =>
        \A m \in DOMAIN ret.rows :
            /\ ret.rows[m]["mask"] = TRUE
            /\ <<ret.rows[m]["metal_node"], ret.rows[m]["organic_core"],
                 ret.rows[m]["topology"]>> \in DOMAIN args.mof2ids
            /\ ret.rows[m]["co2n2_selectivity"] < SelectivityBound
            /\ ret.rows[m]["co2ch4_selectivity"] < SelectivityBound

\* a run that keeps a row and drops another
C2_Witness ==
    /\ PropDone
    /\ Len(ret.rows) >= 1
    /\ Len(ret.rows) < Len(args.csv_file.rows)
    /\ ~args.testing

\* the removal counts printed by the three filter stages
ReportedRemovals == {k \in DOMAIN log : k > 1}

RECURSIVE SumRemoved(_)
SumRemoved(ks) ==
    IF ks = {} THEN 0
    ELSE LET k == CHOOSE x \in ks : TRUE IN log[k].removed + SumRemoved(ks \ {k})

\* C3 (as stated): in every run, test mode or not, the reported removal
\* counts plus the number of returned rows equal the number of rows of the
\* loaded file.
C3_LedgerOverFile ==
    PropDone => SumRemoved(ReportedRemovals) + Len(ret.rows) = Len(args.csv_file.rows)

CountRows(rows, P(_)) == Cardinality({k \in DOMAIN rows : P(rows[k])})

\* C3 (amended): in every run that returns, the mask, identity and outlier
\* counts plus the number of returned rows equal the number of rows of the
\* frame the filters start from: all rows of the file in a real run, the
\* sampled rows in test mode (the rows the sample leaves out are in no
\* count).  Each count is the number of rows its stage drops.
C3_LedgerOverLoadedFrame ==
    PropDone =>
        LET start == locals.loaded.rows
            masked(r) == ~r["mask"]
            unknown(r) == r["mask"] /\ MofOf(r) \notin DOMAIN args.mof2ids
            high(r) == /\ r["mask"] /\ MofOf(r) \in DOMAIN args.mof2ids
                       /\ ~(r["co2n2_selectivity"] < SelectivityBound
                            /\ r["co2ch4_selectivity"] < SelectivityBound)
        IN  /\ Len(log) = 4
            /\ log[2] = [stage |-> "mask", removed |-> CountRows(start, masked)]
            /\ log[3] = [stage |-> "mof2ids", removed |-> CountRows(start, unknown)]
            /\ log[4] = [stage |-> "selectivity", removed |-> CountRows(start, high)]
            /\ SumRemoved(ReportedRemovals) + Len(ret.rows) = Len(start)
            /\ ~args.testing => Len(start) = Len(args.csv_file.rows)
            /\ args.testing => Len(start) = TestSampleSize

\* a test run on a file with more rows than the sample takes
C3_Witness ==
    /\ PropDone
    /\ args.testing
    /\ Len(args.csv_file.rows) > TestSampleSize
    /\ Len(ret.rows) >= 1

TargetMissingFrom(frame) == \E i \in DOMAIN args.targets : args.targets[i] \notin frame.columns

NoRemovalReported == ReportedRemovals = {}

\* C8 (as stated): if a requested target column is absent from the loaded
\* table the run ends in an assertion failure, returns nothing and reports
\* no removal count; when all targets are present the assertion never fires.
\* Runs that fail at another statement (lines 166 and 186) are left aside.
C8_AssertOnLoadedTable ==
    (PropEnded /\ locals.line \notin {166, 186}) =>
        /\ TargetMissingFrom(locals.loaded) =>
              (err = "AssertionError" /\ ret = NoValue /\ NoRemovalReported)
        /\ ~TargetMissingFrom(locals.loaded) => err # "AssertionError"

\* C8 (amended): the check runs after load and optional scoring, which
\* attaches the column scscore, and before the mask, identity and outlier
\* filters.  If a requested target is absent from the table at that point
\* the run ends in an assertion failure, returns nothing and reports no
\* removal count; a target absent from the file does not fail the run when
\* it is scscore and scoring is on.  When every target is present at the
\* check, the assertion never fires.
C8_AssertOnScoredTable ==
    (PropEnded /\ locals.line # 166) =>
        LET scored == [columns |-> locals.loaded.columns
                                   \cup (IF args.compute_scscore THEN {"scscore"} ELSE {}),
                       rows |-> <<>>]
        IN  /\ TargetMissingFrom(scored) =>
                  /\ err = "AssertionError" /\ pc = "raised" /\ ret = NoValue
                  /\ NoRemovalReported
                  /\ df.columns = scored.columns
                  /\ Len(df.rows) = Len(locals.loaded.rows)
            /\ ~TargetMissingFrom(scored) =>
                  /\ err # "AssertionError"
                  /\ ~NoRemovalReported

\* scoring supplies the target scscore that the file lacks
C8_Witness ==
    /\ PropDone
    /\ TargetMissingFrom(locals.loaded)
    /\ args.compute_scscore
    /\ Len(ret.rows) >= 1

SelectivitiesOf(r) == <<r["co2n2_selectivity"], r["co2ch4_selectivity"]>>

\* the rows r of the frame with Keep(r), renumbered from 0
RECURSIVE KeptRows(_, _, _)
KeptRows(rows, Keep(_), n) ==
    IF rows = <<>> THEN <<>>
    ELSE IF Keep(Head(rows))
         THEN <<[Head(rows) EXCEPT !["Index"] = n]>> \o KeptRows(Tail(rows), Keep, n + 1)
         ELSE KeptRows(Tail(rows), Keep, n)

\* C9 (as stated): a row that passed the mask and identity filters is dropped
\* if and only if one of its selectivities exceeds 200.0; a value equal to
\* 200.0 is kept; kept rows retain their order.
C9_DropsAbove ==
    PropDone =>
        LET keep(r) == ~(r["co2n2_selectivity"] > SelectivityBound
                         \/ r["co2ch4_selectivity"] > SelectivityBound)
        IN  ret.rows = KeptRows(locals.identified.rows, keep, 0)

\* C9 (amended): a row that passed the mask and identity filters is dropped
\* if and only if one of its selectivities is not strictly below 200.0; a
\* value equal to 200.0 is dropped; kept rows retain their order.
C9_DropsAtOrAbove ==
    PropDone =>
        LET keep(r) == ~(r["co2n2_selectivity"] >= SelectivityBound
                         \/ r["co2ch4_selectivity"] >= SelectivityBound)
        IN  ret.rows = KeptRows(locals.identified.rows, keep, 0)

\* a row at exactly the bound is dropped between two rows that are kept
C9_Witness ==
    /\ PropDone
    /\ Len(ret.rows) >= 1
    /\ \E k \in DOMAIN locals.identified.rows :
          /\ SelectivityBound \in {locals.identified.rows[k]["co2n2_selectivity"],
                                   locals.identified.rows[k]["co2ch4_selectivity"]}
          /\ \A m \in DOMAIN ret.rows : SelectivitiesOf(ret.rows[m]) = <<199, 199>>

(***************************************************************************)
(* predict_properties                                                      *)
(*                                                                         *)
(* An example is (x, mof, y).  The model and the trainer are the caller's: *)
(* the encoder, the decoder z_to_y, the scaler and the collate function    *)
(* act row by row.                                                         *)
(***************************************************************************)
MaxData == 3
MaxBatch == 3

Examples == [x : {1, 2}, mof : {1}, y : {0, 1}]

Min(a, b) == IF a < b THEN a ELSE b

\* int(np.ceil(n / batch_size))
CeilDiv(n, b) == (n + b - 1) \div b

\* utils.chunks(data, batch_size): consecutive slices of batch_size items
Chunk(data, batch_size, i) ==
    SubSeq(data, (i - 1) * batch_size + 1, Min(i * batch_size, Len(data)))

\* trainer.get_collate_fn(model)(chunk): one tensor row per example
Collate(chunk) ==
    [x_tensor |-> [k \in DOMAIN chunk |-> chunk[k].x],
     mof_tensor |-> [k \in DOMAIN chunk |-> chunk[k].mof],
     y_tensor |-> [k \in DOMAIN chunk |-> chunk[k].y]]

\* model.forward_encoder, model.z_to_y and model.y_scaler.inverse_transform
ForwardEncoder(x_tensor, mof_tensor) == [k \in DOMAIN x_tensor |-> 3 * x_tensor[k] + mof_tensor[k]]

ZToY(z_tensor) == [k \in DOMAIN z_tensor |-> z_tensor[k] - 2]

InverseTransform(y) == [k \in DOMAIN y |-> 10 * y[k] + 5]

ExtendWithFirst(list, rows) == IF rows = <<>> THEN list ELSE Append(list, rows[1])

\* list.extend(rows): one list entry per row of the array
Extend(list, rows) == list \o rows

InitPredict ==
    /\ fn = "predict_properties"
    /\ args \in [data : SeqsUpTo(Examples, MaxData), batch_size : 1..MaxBatch]
    /\ pc = "loop"
    /\ df = NoFrame
    /\ locals = [n |-> Len(args.data),
                 n_loops |-> CeilDiv(Len(args.data), args.batch_size),
                 chunks |-> <<>>, y_true |-> <<>>, y_pred |-> <<>>]
    /\ log = <<>>
    /\ err = "none"
    /\ ret = NoValue

\* one pass of the loop of lines 81-92
PredictChunk ==
    /\ fn = "predict_properties" /\ pc = "loop"
    /\ Len(locals.chunks) * args.batch_size < Len(args.data)
    /\ LET chunk == Chunk(args.data, args.batch_size, Len(locals.chunks) + 1)
           t == Collate(chunk)
           z_tensor == ForwardEncoder(t.x_tensor, t.mof_tensor)
           y_pred_tensor == ZToY(z_tensor)
           y_pred_scaled == InverseTransform(y_pred_tensor)
           y_true_scaled == InverseTransform(t.y_tensor)
       IN  locals' = [locals EXCEPT !.chunks = Append(@, chunk),
                                    !.y_pred = Extend(@, y_pred_scaled),
                                    !.y_true = Extend(@, y_true_scaled)]
    /\ UNCHANGED <<fn, args, pc, df, log, err, ret>>

\* line 94: np.stack of an empty list raises ValueError
PredictStackError ==
    /\ fn = "predict_properties" /\ pc = "loop"
    /\ Len(locals.chunks) * args.batch_size >= Len(args.data)
    /\ locals.y_pred = <<>>
    /\ pc' = "raised"
    /\ err' = "ValueError"
    /\ UNCHANGED <<fn, args, df, locals, log, ret>>

\* lines 94-96
PredictReturn ==
    /\ fn = "predict_properties" /\ pc = "loop"
    /\ Len(locals.chunks) * args.batch_size >= Len(args.data)
    /\ locals.y_pred # <<>>
    /\ locals.y_true # <<>>
    /\ ret' = [y_pred |-> locals.y_pred, y_true |-> locals.y_true]
    /\ pc' = "done"
    /\ UNCHANGED <<fn, args, df, locals, log, err>>

NextPredict == PredictChunk \/ PredictStackError \/ PredictReturn

SpecPredict == InitPredict /\ [][NextPredict]_vars

(***************************************************************************)
(* Properties of predict_properties                                        *)
(***************************************************************************)
PredictEnded == fn = "predict_properties" /\ pc # "loop"

\* the chunks seen by the loop are consecutive slices of batch_size examples
\* in input order, the last one of n mod batch_size examples when that is
\* not zero
ChunksInOrder ==
    LET n == Len(args.data)
        b == args.batch_size
    IN  /\ Len(locals.chunks) = (IF n % b = 0 THEN n \div b ELSE n \div b + 1)
        /\ \A c \in DOMAIN locals.chunks :
              /\ Len(locals.chunks[c]) =
                    (IF c = Len(locals.chunks) /\ n % b # 0 THEN n % b ELSE b)
              /\ \A k \in DOMAIN locals.chunks[c] :
                    locals.chunks[c][k] = args.data[(c - 1) * b + k]

\* both arrays have one row per example, row k computed from example k
RowsAligned ==
    /\ Len(ret.y_pred) = Len(args.data)
    /\ Len(ret.y_true) = Len(args.data)
    /\ \A k \in DOMAIN args.data :
          /\ ret.y_true[k] = 10 * args.data[k].y + 5
          /\ ret.y_pred[k] = 10 * ((3 * args.data[k].x + args.data[k].mof) - 2) + 5

\* C4 (as stated): for every N >= 0 and B >= 1 predict_properties processes
\* consecutive chunks of B examples in input order (the last of N mod B when
\* that is not zero) and returns two arrays of exactly N rows, row k from
\* example k.
C4_NRowsForEveryN ==
    PredictEnded => (pc = "done" /\ ChunksInOrder /\ RowsAligned)

\* C4 (amended): the same for every N >= 1; for N = 0 the loop sees no chunk
\* and np.stack of the empty list raises ValueError, so nothing is returned.
C4_NRowsForPositiveN ==
    PredictEnded =>
        /\ ChunksInOrder
        /\ Len(args.data) >= 1 => (pc = "done" /\ err = "none" /\ RowsAligned)
        /\ Len(args.data) = 0 => (pc = "raised" /\ err = "ValueError" /\ ret = NoValue)

\* N is not a multiple of B and the last chunk is the short one
C4_Witness ==
    /\ PredictEnded /\ pc = "done"
    /\ Len(args.data) % args.batch_size # 0
    /\ Len(locals.chunks) >= 2
    /\ Len(ret.y_pred) = Len(args.data)

(***************************************************************************)
(* fast_scscore                                                            *)
(*                                                                         *)
(* dask.dataframe.from_pandas sorts the frame by its index and cuts it     *)
(* into at most npartitions consecutive partitions; compute with the       *)
(* scheduler 'processes' scores the partitions in worker processes that    *)
(* finish in any order, and concatenates the results by partition number.  *)
(***************************************************************************)
MaxScoreRows == 3
MaxCores == 2

IndexOrders(n) == Injections(n, 0..(n - 1))

\* frames whose index labels are 0..n-1 in any order
ScoreFrames ==
    UNION {{[columns |-> {"smiles"},
             rows |-> [k \in 1..n |-> [Index |-> p[k], smiles |-> v[k]]]]
            : p \in IndexOrders(n), v \in [1..n -> SmilesValues]}
           : n \in 0..MaxScoreRows}

\* DataFrame.sort_index() on unique labels
SortIndex(rows) == SortValues(rows, "Index")

RECURSIVE SplitAt(_, _, _)
\* the slices of rows that end at the positions of cuts and at the last row
SplitAt(rows, cuts, from) ==
    IF cuts = {} THEN <<SubSeq(rows, from, Len(rows))>>
    ELSE LET c == CHOOSE x \in cuts : \A y \in cuts : x <= y
         IN  <<SubSeq(rows, from, c)>> \o SplitAt(rows, cuts \ {c}, c + 1)

\* from_pandas(df, npartitions): the partitionings dask can build
FromPandas(frame, npartitions) ==
    LET sorted == SortIndex(frame.rows)
    IN  {SplitAt(sorted, cuts, 1) :
            cuts \in {c \in SUBSET (1..(Len(sorted) - 1)) : Cardinality(c) + 1 <= npartitions}}

\* dd[smiles_column].apply(get_score) on one partition
ScorePartition(part, smiles_column) ==
    [k \in DOMAIN part |-> [Index |-> part[k]["Index"], score |-> ScoreOf(part[k][smiles_column])]]

RECURSIVE GatherAsCompleted(_, _)
GatherAsCompleted(finished, n) ==
    IF finished = <<>> THEN <<>>
    ELSE Head(finished).scores \o GatherAsCompleted(Tail(finished), n)

RECURSIVE Gather(_, _)
\* the results of partitions 1..n, concatenated by partition number
Gather(finished, n) ==
    IF n = 0 THEN <<>>
    ELSE LET k == CHOOSE i \in DOMAIN finished : finished[i].part = n
         IN  Gather(finished, n - 1) \o finished[k].scores

InitScscore ==
    /\ fn = "fast_scscore"
    /\ args \in [df : ScoreFrames, smiles_column : {"smiles"}, n_cores : 1..MaxCores]
    /\ pc = "call"
    /\ df = NoFrame
    /\ locals = NoValue
    /\ log = <<>>
    /\ err = "none"
    /\ ret = NoValue

\* lines 28-30
ScscoreFromPandas ==
    /\ fn = "fast_scscore" /\ pc = "call"
    /\ \E parts \in FromPandas(args.df, args.n_cores * args.n_cores) :
          locals' = [npartitions |-> args.n_cores * args.n_cores,
                     parts |-> parts, finished |-> <<>>]
    /\ log' = <<args.n_cores>>
    /\ pc' = "compute"
    /\ UNCHANGED <<fn, args, df, err, ret>>

\* a worker process finishes the partition it was given
ScscoreWorkerFinish ==
    /\ fn = "fast_scscore" /\ pc = "compute"
    /\ \E p \in DOMAIN locals.parts :
          /\ \A i \in DOMAIN locals.finished : locals.finished[i].part # p
          /\ locals' = [locals EXCEPT !.finished =
                          Append(@, [part |-> p,
                                     scores |-> ScorePartition(locals.parts[p],
                                                               args.smiles_column)])]
    /\ UNCHANGED <<fn, args, pc, df, log, err, ret>>

\* lines 35-37: compute returns once every partition is scored
ScscoreReturn ==
    /\ fn = "fast_scscore" /\ pc = "compute"
    /\ Len(locals.finished) = Len(locals.parts)
    /\ ret' = [series |-> Gather(locals.finished, Len(locals.parts))]
    /\ pc' = "done"
    /\ UNCHANGED <<fn, args, df, locals, log, err>>

NextScscore == ScscoreFromPandas \/ ScscoreWorkerFinish \/ ScscoreReturn

SpecScscore == InitScscore /\ [][NextScscore]_vars

(***************************************************************************)
(* Properties of fast_scscore                                              *)
(***************************************************************************)
ScscoreDone == fn = "fast_scscore" /\ pc = "done"

InputRows == args.df.rows

ScoredRow(r) == [Index |-> r["Index"], score |-> (IF r["smiles"] = "C" THEN 1 ELSE 2)]

\* one score per input row, under the index label of the row
OneScorePerRow ==
    /\ Len(ret.series) = Len(InputRows)
    /\ \A k \in DOMAIN InputRows :
          Cardinality({m \in DOMAIN ret.series : ret.series[m] = ScoredRow(InputRows[k])}) = 1

InOriginalOrder == \A k \in DOMAIN InputRows : ret.series[k] = ScoredRow(InputRows[k])

InIndexOrder ==
    \A m, n \in DOMAIN ret.series : m < n => ret.series[m]["Index"] < ret.series[n]["Index"]

IndexAscending ==
    \A j, k \in DOMAIN InputRows : j < k => InputRows[j]["Index"] < InputRows[k]["Index"]

\* C6 (as stated): for every dataframe and core count c the rows are split
\* into c*c partitions and, under every interleaving of the workers, the
\* series has one score per input row, as many entries as the input has rows,
\* in the original row order.
C6_OriginalRowOrder ==
    ScscoreDone =>
        /\ Len(locals.parts) = args.n_cores * args.n_cores
        /\ OneScorePerRow
        /\ InOriginalOrder

\* C6 (amended): fast_scscore asks for c*c partitions and dask builds at
\* most that many, consecutive in index order.  Under every interleaving of
\* the workers the series has as many entries as the input has rows and
\* exactly one score per input row, under that row's index label, in
\* ascending order of the index: that is the original row order exactly
\* when the index of the input is ascending.
C6_IndexOrder ==
    ScscoreDone =>
        /\ Len(locals.parts) <= args.n_cores * args.n_cores
        /\ OneScorePerRow
        /\ InIndexOrder
        /\ InOriginalOrder <=> IndexAscending

\* several partitions, finished out of partition order, on a frame whose
\* index is not ascending
C6_Witness ==
    /\ ScscoreDone
    /\ Len(locals.parts) >= 2
    /\ locals.finished[1].part # 1
    /\ ~IndexAscending
    /\ \E p \in DOMAIN locals.parts : Len(locals.parts[p]) >= 2

====
